---- MODULE Spec2Model ----
(***************************************************************************)
(* Model of startmenu_sync_to_gdrive.py: a watchdog observer feeds file    *)
(* system events to FileHandler, whose cooldown gate decides when to run   *)
(* sync_to_gdrive() (rclone sync, then rclone dedupe on success).          *)
(*                                                                         *)
(* Two threads exist: the main thread (configuration check, initial sync,  *)
(* watch_directory loop, shutdown) and the observer's dispatch thread,     *)
(* which runs the handler callbacks one event at a time.                   *)
(***************************************************************************)
EXTENDS Integers, Sequences, FiniteSets, TLC

(* ---------------------------------------------------------------- bounds *)
\* time.time() readings are whole seconds MinClock..MaxClock
MinClock == 5
MaxClock == 11
\* events waiting in the observer's queue
MaxQueue == 1
\* triggerCount saturates here
CountCap == 2
\* syncCalls saturates here: the initial sync and CountCap triggered ones
SyncCallCap == CountCap + 1

(* ------------------------------------------------------------- constants *)
\* FileHandler.sync_cooldown
sync_cooldown == 5
\* the handler created with the gate already primed at process start
InitialLastSyncTime_startup == MinClock
\* FileHandler.last_sync_time right after __init__
InitialLastSyncTime == 0

None == "None"
NoHandler == -1
NoTime == -1
NoExit == -1
Home == "C:"

Threads == {"main", "observer"}

\* values of the two environment variables read at import time
EnvSourceValues == {None, "", "~/m"}
EnvDestValues == {None, "", "gd:"}

\* paths the watch service reports
Paths == {"a.txt", "b.tmp"}
Kinds == {"modified", "created", "deleted", "moved"}

\* exit statuses of the rclone subprocesses
ExitCodes == {0, 1}

ignored_extensions == {".tmp", ".temp", ".swp", ".~", ".crdownload", ".part"}

VARIABLES
    source_path,        \* module global, line 30
    destination_path,   \* module global, line 33
    pc,                 \* position of each thread
    exitStatus,         \* process exit status, NoExit while running
    last_sync_time,     \* FileHandler.last_sync_time, NoHandler before __init__
    clock,              \* what time.time() returns now
    queue,              \* observer event queue
    curOccurred,        \* occurrence time of the event being handled
    event_path,         \* argument of the trigger_sync call in progress
    running,            \* subprocesses in progress: <<thread, "sync"|"dedupe">>
    call,               \* per thread: record of the sync_to_gdrive call
    initial_syncs,      \* sync_to_gdrive calls made by __main__
    watchRegistered,    \* observer.schedule + start done
    stopped,            \* observer.stop() called
    lastTrigOccurred,   \* occurrence time of the last event that triggered
    script,             \* scenario events that have not occurred yet
    lastTrigger,        \* clock reading of the last event-triggered sync
    triggerCount,       \* event-triggered syncs so far, counted up to CountCap
    lastHandled,        \* how the last completed callback ended
    syncCalls           \* executions of sync_to_gdrive, counted up to SyncCallCap

vars == <<source_path, destination_path, pc, exitStatus, last_sync_time,
          clock, queue, curOccurred, event_path, running, call,
          initial_syncs, watchRegistered, stopped, lastTrigOccurred,
          script, lastTrigger, triggerCount, lastHandled, syncCalls>>

(* ------------------------------------------------------- pure functions *)
\* str.endswith
EndsWith(path, ext) ==
    /\ Len(path) >= Len(ext)
    /\ SubSeq(path, Len(path) - Len(ext) + 1, Len(path)) = ext

\* FileHandler.should_ignore
should_ignore(path) == \E ext \in ignored_extensions : EndsWith(path, ext)

\* os.environ.get(name, default)
EnvGet(value, default) == IF value = None THEN default ELSE value

\* os.path.expanduser
expanduser(path) ==
    IF Len(path) >= 1 /\ SubSeq(path, 1, 1) = "~"
    THEN Home \o SubSeq(path, 2, Len(path))
    ELSE path

\* Python truthiness of an optional string
Falsy(s) == s = None \/ s = ""

\* the check demanding that both values be missing
ConfigMissing_both(src, dst) == Falsy(src) /\ Falsy(dst)

\* line 35
ConfigMissing(src, dst) == Falsy(src) \/ Falsy(dst)

\* the gate still closed at exactly last + sync_cooldown
CooldownActive_inclusive(current_time, last) ==
    current_time - last <= sync_cooldown

\* the gate with a window one second too short
CooldownActive_short(current_time, last) ==
    current_time - last < sync_cooldown - 1

\* the gate comparing the distance between the two readings
CooldownActive_abs(current_time, last) ==
    (IF current_time >= last THEN current_time - last ELSE last - current_time)
        < sync_cooldown

\* line 139
CooldownActive(current_time, last) == current_time - last < sync_cooldown

\* the existence check left out
SourceCheckFails_skipped(exists) == FALSE

\* line 77
SourceCheckFails(exists) == ~exists

\* subprocess.run without check=True: a non-zero exit raises nothing
CalledProcessError_unchecked(code) == FALSE

\* subprocess.run(check=True) raising CalledProcessError
CalledProcessError(code) == code # 0

\* the value of dedupe_gdrive() returned as the outcome of the sync
SyncResultAfterDedupe_propagated(dedupeOk) ==
    IF dedupeOk THEN "True" ELSE "False"

\* lines 111-113: the value of dedupe_gdrive() is dropped
SyncResultAfterDedupe(dedupeOk) == "True"

\* lines 177 and 180
\* a rename handler that filters on the destination path
MovedFilterPath_dest(e) == e.dest_path
MovedFilterPath(e) == e.src_path
MovedGatePath(e) == e.dest_path

(* ------------------------------------------------------------------ Init *)
NoCall == [exists |-> "unchecked", syncs |-> 0, dedupes |-> 0,
           syncExit |-> NoExit, dedupeExit |-> NoExit, result |-> "pending"]

\* watchdog events carry no timestamp: occurred is NoTime unless a scenario
\* stamps it
Events ==
    [kind : Kinds \ {"moved"}, src_path : Paths, dest_path : {""},
     occurred : {NoTime}]
    \cup
    [kind : {"moved"}, src_path : Paths, dest_path : Paths,
     occurred : {NoTime}]

Init ==
    /\ \E es \in EnvSourceValues, ed \in EnvDestValues :
          /\ source_path = expanduser(EnvGet(es, ""))
          /\ destination_path = ed
    /\ pc = [main |-> "config", observer |-> "unstarted"]
    /\ exitStatus = NoExit
    /\ last_sync_time = NoHandler
    /\ clock = MinClock
    /\ queue = <<>>
    /\ curOccurred = NoTime
    /\ event_path = ""
    /\ running = {}
    /\ call = [t \in Threads |-> NoCall]
    /\ initial_syncs = 0
    /\ watchRegistered = FALSE
    /\ stopped = FALSE
    /\ lastTrigOccurred = NoTime
    /\ script = <<>>
    /\ lastTrigger = NoTime
    /\ triggerCount = 0
    /\ lastHandled = "none"
    /\ syncCalls = 0

(* ----------------------------------------------------------- environment *)
Tick ==
    /\ exitStatus = NoExit
    /\ clock < MaxClock
    /\ clock' = clock + 1
    /\ UNCHANGED <<source_path, destination_path, pc, exitStatus,
                   last_sync_time, queue, curOccurred, event_path, running,
                   call, initial_syncs, watchRegistered, stopped,
                   lastTrigOccurred, script, lastTrigger, triggerCount,
                   lastHandled, syncCalls>>

\* the wall clock is set back
ClockBack ==
    /\ exitStatus = NoExit
    /\ clock > MinClock
    /\ clock' = clock - 1
    /\ UNCHANGED <<source_path, destination_path, pc, exitStatus,
                   last_sync_time, queue, curOccurred, event_path, running,
                   call, initial_syncs, watchRegistered, stopped,
                   lastTrigOccurred, script, lastTrigger, triggerCount,
                   lastHandled, syncCalls>>

\* the watch service reports a change under source_path
EventArrive ==
    /\ watchRegistered
    /\ ~stopped
    /\ Len(queue) < MaxQueue
    /\ \E e \in Events : queue' = Append(queue, e)
    /\ UNCHANGED <<source_path, destination_path, pc, exitStatus,
                   last_sync_time, clock, curOccurred, event_path, running,
                   call, initial_syncs, watchRegistered, stopped,
                   lastTrigOccurred, script, lastTrigger, triggerCount,
                   lastHandled, syncCalls>>

(* ------------------------------------------------------- sync_to_gdrive *)
\* lines 72-104: existence check, then the rclone sync subprocess starts
sync_to_gdrive(t) ==
    /\ pc[t] = "sync_to_gdrive"
    /\ \E exists \in BOOLEAN :
          IF SourceCheckFails(exists)
          THEN /\ call' = [call EXCEPT ![t].exists = IF exists THEN "yes" ELSE "no",
                                       ![t].result = "False"]
               /\ pc' = [pc EXCEPT ![t] = "returned"]
               /\ UNCHANGED running
          ELSE /\ call' = [call EXCEPT ![t].exists = IF exists THEN "yes" ELSE "no",
                                       ![t].syncs = @ + 1]
               /\ running' = running \cup {<<t, "sync">>}
               /\ pc' = [pc EXCEPT ![t] = "sync_running"]
    /\ syncCalls' = IF syncCalls < SyncCallCap THEN syncCalls + 1 ELSE syncCalls
    /\ UNCHANGED <<source_path, destination_path, exitStatus, last_sync_time,
                   clock, queue, curOccurred, event_path, initial_syncs,
                   watchRegistered, stopped, lastTrigOccurred, script,
                   lastTrigger, triggerCount, lastHandled>>

\* lines 95-119: the rclone sync subprocess exits
SyncExit(t) ==
    /\ pc[t] = "sync_running"
    /\ \E code \in ExitCodes :
          /\ running' = running \ {<<t, "sync">>}
          /\ IF CalledProcessError(code)
             THEN /\ call' = [call EXCEPT ![t].syncExit = code,
                                          ![t].result = "False"]
                  /\ pc' = [pc EXCEPT ![t] = "returned"]
             ELSE /\ call' = [call EXCEPT ![t].syncExit = code]
                  /\ pc' = [pc EXCEPT ![t] = "sync_ok"]
    /\ UNCHANGED <<source_path, destination_path, exitStatus, last_sync_time,
                   clock, queue, curOccurred, event_path, initial_syncs,
                   watchRegistered, stopped, lastTrigOccurred, script,
                   lastTrigger, triggerCount, lastHandled, syncCalls>>

\* lines 111, 39-61: dedupe_gdrive() starts the rclone dedupe subprocess
dedupe_gdrive(t) ==
    /\ pc[t] = "sync_ok"
    /\ running' = running \cup {<<t, "dedupe">>}
    /\ call' = [call EXCEPT ![t].dedupes = @ + 1]
    /\ pc' = [pc EXCEPT ![t] = "dedupe_running"]
    /\ UNCHANGED <<source_path, destination_path, exitStatus, last_sync_time,
                   clock, queue, curOccurred, event_path, initial_syncs,
                   watchRegistered, stopped, lastTrigOccurred, script,
                   lastTrigger, triggerCount, lastHandled, syncCalls>>

\* lines 62-69, 113: the dedupe subprocess exits, sync_to_gdrive returns
DedupeExit(t) ==
    /\ pc[t] = "dedupe_running"
    /\ \E code \in ExitCodes :
          /\ running' = running \ {<<t, "dedupe">>}
          /\ call' = [call EXCEPT
                 ![t].dedupeExit = code,
                 ![t].result = SyncResultAfterDedupe(~CalledProcessError(code))]
          /\ pc' = [pc EXCEPT ![t] = "returned"]
    /\ UNCHANGED <<source_path, destination_path, exitStatus, last_sync_time,
                   clock, queue, curOccurred, event_path, initial_syncs,
                   watchRegistered, stopped, lastTrigOccurred, script,
                   lastTrigger, triggerCount, lastHandled, syncCalls>>

(* ----------------------------------------------------------- main thread *)
\* lines 35-37: fatal configuration check at import time
ConfigCheck ==
    /\ pc["main"] = "config"
    /\ IF ConfigMissing(source_path, destination_path)
       THEN /\ pc' = [pc EXCEPT !["main"] = "exited"]
            /\ exitStatus' = 1
       ELSE /\ pc' = [pc EXCEPT !["main"] = "main"]
            /\ UNCHANGED exitStatus
    /\ UNCHANGED <<source_path, destination_path, last_sync_time, clock,
                   queue, curOccurred, event_path, running, call,
                   initial_syncs, watchRegistered, stopped, lastTrigOccurred,
                   script, lastTrigger, triggerCount, lastHandled, syncCalls>>

\* startup that goes straight to watching
InitialSync_skipped ==
    /\ pc["main"] = "main"
    /\ pc' = [pc EXCEPT !["main"] = "returned"]
    /\ UNCHANGED <<source_path, destination_path, exitStatus, last_sync_time,
                   clock, queue, curOccurred, event_path, running, call,
                   initial_syncs, watchRegistered, stopped, lastTrigOccurred,
                   script, lastTrigger, triggerCount, lastHandled, syncCalls>>

\* lines 207-214: banner, then the initial sync is called
InitialSync ==
    /\ pc["main"] = "main"
    /\ pc' = [pc EXCEPT !["main"] = "sync_to_gdrive"]
    /\ initial_syncs' = initial_syncs + 1
    /\ UNCHANGED <<source_path, destination_path, exitStatus, last_sync_time,
                   clock, queue, curOccurred, event_path, running, call,
                   watchRegistered, stopped, lastTrigOccurred, script,
                   lastTrigger, triggerCount, lastHandled, syncCalls>>

\* the watch is started without waiting for the initial sync's subprocess
InitialSyncReturned_early ==
    pc["main"] \in {"returned", "sync_running", "dedupe_running"}

\* lines 214-218: watch_directory() is called when sync_to_gdrive() has returned
InitialSyncReturned == pc["main"] = "returned"

\* lines 182-195: handler created, watch scheduled, observer started
watch_directory ==
    /\ InitialSyncReturned
    /\ ~watchRegistered
    /\ last_sync_time' = InitialLastSyncTime
    /\ watchRegistered' = TRUE
    /\ pc' = [pc EXCEPT !["main"] = "watching", !["observer"] = "idle"]
    \* the value returned at line 214 is discarded; only the outcome is kept
    /\ call' = [call EXCEPT !["main"] = [NoCall EXCEPT !.result = call["main"].result]]
    /\ UNCHANGED <<source_path, destination_path, exitStatus, clock, queue,
                   curOccurred, event_path, running, initial_syncs, stopped,
                   lastTrigOccurred, script, lastTrigger, triggerCount,
                   lastHandled, syncCalls>>

\* lines 199-203: KeyboardInterrupt in the sleep loop, observer.stop()
KeyboardInterrupt ==
    /\ pc["main"] = "watching"
    /\ stopped' = TRUE
    /\ pc' = [pc EXCEPT !["main"] = "join"]
    /\ UNCHANGED <<source_path, destination_path, exitStatus, last_sync_time,
                   clock, queue, curOccurred, event_path, running, call,
                   initial_syncs, watchRegistered, lastTrigOccurred, script,
                   lastTrigger, triggerCount, lastHandled, syncCalls>>

\* the dispatch thread leaves its loop once stopped and not in a callback
ObserverThreadExit ==
    /\ pc["observer"] = "idle"
    /\ stopped
    /\ pc' = [pc EXCEPT !["observer"] = "dead"]
    /\ queue' = <<>>
    /\ UNCHANGED <<source_path, destination_path, exitStatus, last_sync_time,
                   clock, curOccurred, event_path, running, call,
                   initial_syncs, watchRegistered, stopped, lastTrigOccurred,
                   script, lastTrigger, triggerCount, lastHandled, syncCalls>>

\* shutdown that does not wait for the dispatch thread
JoinAndExit_nojoin ==
    /\ pc["main"] = "join"
    /\ pc' = [pc EXCEPT !["main"] = "exited"]
    /\ exitStatus' = 0
    /\ UNCHANGED <<source_path, destination_path, last_sync_time, clock,
                   queue, curOccurred, event_path, running, call,
                   initial_syncs, watchRegistered, stopped, lastTrigOccurred,
                   script, lastTrigger, triggerCount, lastHandled, syncCalls>>

\* lines 205, 220: observer.join() returns, final banner, normal exit
JoinAndExit ==
    /\ pc["main"] = "join"
    /\ pc["observer"] = "dead"
    /\ pc' = [pc EXCEPT !["main"] = "exited"]
    /\ exitStatus' = 0
    /\ UNCHANGED <<source_path, destination_path, last_sync_time, clock,
                   queue, curOccurred, event_path, running, call,
                   initial_syncs, watchRegistered, stopped, lastTrigOccurred,
                   script, lastTrigger, triggerCount, lastHandled, syncCalls>>

(* -------------------------------------------------------- event callbacks *)
\* the dispatch thread takes the next event when no callback is running
CanDispatch(kind) ==
    /\ pc["observer"] = "idle"
    /\ ~stopped
    /\ queue # <<>>
    /\ Head(queue).kind = kind

\* common shape of the four callbacks: filter one path, hand one path on
Callback(e, filtered, passed) ==
    /\ queue' = Tail(queue)
    /\ IF should_ignore(filtered)
       THEN /\ lastHandled' = "ignored"
            /\ UNCHANGED <<pc, curOccurred, event_path>>
       ELSE /\ pc' = [pc EXCEPT !["observer"] = "trigger_sync"]
            /\ curOccurred' = e.occurred
            /\ event_path' = passed
            /\ UNCHANGED lastHandled
    /\ UNCHANGED <<source_path, destination_path, exitStatus, last_sync_time,
                   clock, running, call, initial_syncs, watchRegistered,
                   stopped, lastTrigOccurred, script, lastTrigger,
                   triggerCount, syncCalls>>

\* lines 154-159
on_modified ==
    /\ CanDispatch("modified")
    /\ Callback(Head(queue), Head(queue).src_path, Head(queue).src_path)

\* lines 161-166
on_created ==
    /\ CanDispatch("created")
    /\ Callback(Head(queue), Head(queue).src_path, Head(queue).src_path)

\* lines 168-173
on_deleted ==
    /\ CanDispatch("deleted")
    /\ Callback(Head(queue), Head(queue).src_path, Head(queue).src_path)

\* lines 175-180
on_moved ==
    /\ CanDispatch("moved")
    /\ Callback(Head(queue), MovedFilterPath(Head(queue)),
                MovedGatePath(Head(queue)))

\* the gate storing the reading before it compares, so that a suppressed
\* event moves last_sync_time too
trigger_sync_touching ==
    /\ pc["observer"] = "trigger_sync"
    /\ LET current_time == clock IN
       /\ last_sync_time' = current_time
       /\ IF CooldownActive(current_time, last_sync_time)
          THEN /\ pc' = [pc EXCEPT !["observer"] = "idle"]
               /\ curOccurred' = NoTime
               /\ event_path' = ""
               /\ lastHandled' = "suppressed"
               /\ UNCHANGED <<lastTrigOccurred, lastTrigger, triggerCount>>
          ELSE /\ lastTrigger' = current_time
               /\ triggerCount' = IF triggerCount < CountCap
                                  THEN triggerCount + 1 ELSE triggerCount
               /\ lastTrigOccurred' = curOccurred
               /\ pc' = [pc EXCEPT !["observer"] = "sync_to_gdrive"]
               /\ UNCHANGED <<curOccurred, event_path, lastHandled>>
    /\ UNCHANGED <<source_path, destination_path, exitStatus, clock, queue,
                   running, call, initial_syncs, watchRegistered, stopped,
                   script, syncCalls>>

\* the gate running the sync for a suppressed event as well, without
\* recording a trigger
trigger_sync_deferring ==
    /\ pc["observer"] = "trigger_sync"
    /\ LET current_time == clock IN
       IF CooldownActive(current_time, last_sync_time)
       THEN /\ pc' = [pc EXCEPT !["observer"] = "sync_to_gdrive"]
            /\ UNCHANGED <<last_sync_time, lastTrigOccurred, lastTrigger,
                           triggerCount, curOccurred, event_path, lastHandled>>
       ELSE /\ last_sync_time' = current_time
            /\ lastTrigger' = current_time
            /\ triggerCount' = IF triggerCount < CountCap
                               THEN triggerCount + 1 ELSE triggerCount
            /\ lastTrigOccurred' = curOccurred
            /\ pc' = [pc EXCEPT !["observer"] = "sync_to_gdrive"]
            /\ UNCHANGED <<curOccurred, event_path, lastHandled>>
    /\ UNCHANGED <<source_path, destination_path, exitStatus, clock, queue,
                   running, call, initial_syncs, watchRegistered, stopped,
                   script, syncCalls>>

\* lines 136-145: the cooldown gate; on pass, sync_to_gdrive() is called
trigger_sync ==
    /\ pc["observer"] = "trigger_sync"
    /\ LET current_time == clock IN
       IF CooldownActive(current_time, last_sync_time)
       THEN /\ pc' = [pc EXCEPT !["observer"] = "idle"]
            /\ curOccurred' = NoTime
            /\ event_path' = ""
            /\ lastHandled' = "suppressed"
            /\ UNCHANGED <<last_sync_time, lastTrigOccurred, lastTrigger,
                           triggerCount>>
       ELSE /\ last_sync_time' = current_time
            /\ lastTrigger' = current_time
            /\ triggerCount' = IF triggerCount < CountCap
                               THEN triggerCount + 1 ELSE triggerCount
            /\ lastTrigOccurred' = curOccurred
            /\ pc' = [pc EXCEPT !["observer"] = "sync_to_gdrive"]
            /\ UNCHANGED <<curOccurred, event_path, lastHandled>>
    /\ UNCHANGED <<source_path, destination_path, exitStatus, clock, queue,
                   running, call, initial_syncs, watchRegistered, stopped,
                   script, syncCalls>>

\* the call logged an error: source missing (line 78), sync failed (line 117)
\* or dedupe failed (line 67)
EndedInError(c) == c.result = "False" \/ c.dedupeExit \notin {NoExit, 0}

\* an error of the call escaping the callback and ending the dispatch thread
trigger_sync_return_crash ==
    /\ pc["observer"] = "returned"
    /\ pc' = [pc EXCEPT !["observer"] =
                 IF EndedInError(call["observer"]) THEN "dead" ELSE "idle"]
    /\ call' = [call EXCEPT !["observer"] = NoCall]
    /\ curOccurred' = NoTime
    /\ event_path' = ""
    /\ lastHandled' = IF EndedInError(call["observer"]) THEN "error" ELSE "ok"
    /\ UNCHANGED <<source_path, destination_path, exitStatus, last_sync_time,
                   clock, queue, running, initial_syncs, watchRegistered,
                   stopped, lastTrigOccurred, script, lastTrigger,
                   triggerCount, syncCalls>>

\* a failed sync giving the cooldown back
trigger_sync_return_rollback ==
    /\ pc["observer"] = "returned"
    /\ pc' = [pc EXCEPT !["observer"] = "idle"]
    /\ last_sync_time' = IF call["observer"].result = "False"
                         THEN InitialLastSyncTime ELSE last_sync_time
    /\ call' = [call EXCEPT !["observer"] = NoCall]
    /\ curOccurred' = NoTime
    /\ event_path' = ""
    /\ lastHandled' = IF EndedInError(call["observer"]) THEN "error" ELSE "ok"
    /\ UNCHANGED <<source_path, destination_path, exitStatus, clock, queue,
                   running, initial_syncs, watchRegistered, stopped,
                   lastTrigOccurred, script, lastTrigger, triggerCount,
                   syncCalls>>

\* lines 146-152: duration logged, the callback returns
trigger_sync_return ==
    /\ pc["observer"] = "returned"
    /\ pc' = [pc EXCEPT !["observer"] = "idle"]
    /\ call' = [call EXCEPT !["observer"] = NoCall]
    /\ curOccurred' = NoTime
    /\ event_path' = ""
    /\ lastHandled' = IF EndedInError(call["observer"]) THEN "error" ELSE "ok"
    /\ UNCHANGED <<source_path, destination_path, exitStatus, last_sync_time,
                   clock, queue, running, initial_syncs, watchRegistered,
                   stopped, lastTrigOccurred, script, lastTrigger,
                   triggerCount, syncCalls>>

(* ------------------------------------------------------------------ Next *)
Next ==
    \/ Tick
    \/ ClockBack
    \/ EventArrive
    \/ ConfigCheck
    \/ InitialSync
    \/ watch_directory
    \/ KeyboardInterrupt
    \/ ObserverThreadExit
    \/ JoinAndExit
    \/ on_modified
    \/ on_created
    \/ on_deleted
    \/ on_moved
    \/ trigger_sync
    \/ trigger_sync_return
    \/ \E t \in Threads : sync_to_gdrive(t)
    \/ \E t \in Threads : SyncExit(t)
    \/ \E t \in Threads : dedupe_gdrive(t)
    \/ \E t \in Threads : DedupeExit(t)

Spec == Init /\ [][Next]_vars

\* Both threads keep running their own code: every step of Python code that
\* is enabled is eventually taken.  Nothing is assumed about the environment:
\* the clock, the arrival of events, the interrupt, and the termination of
\* the rclone subprocesses (subprocess.run is called without a timeout).
ProgramFairness ==
    /\ WF_vars(ConfigCheck)
    /\ WF_vars(InitialSync)
    /\ WF_vars(watch_directory)
    /\ WF_vars(ObserverThreadExit)
    /\ WF_vars(JoinAndExit)
    /\ WF_vars(on_modified)
    /\ WF_vars(on_created)
    /\ WF_vars(on_deleted)
    /\ WF_vars(on_moved)
    /\ WF_vars(trigger_sync)
    /\ WF_vars(trigger_sync_return)
    /\ \A t \in Threads : WF_vars(sync_to_gdrive(t))
    /\ \A t \in Threads : WF_vars(dedupe_gdrive(t))

SpecLive == Spec /\ ProgramFairness

TypeOK ==
    /\ pc["main"] \in {"config", "main", "sync_to_gdrive", "sync_running",
                       "sync_ok", "dedupe_running", "returned", "watching",
                       "join", "exited"}
    /\ pc["observer"] \in {"unstarted", "idle", "trigger_sync",
                           "sync_to_gdrive", "sync_running", "sync_ok",
                           "dedupe_running", "returned", "dead"}
    /\ clock \in MinClock..MaxClock
    /\ last_sync_time \in {NoHandler, InitialLastSyncTime} \cup MinClock..MaxClock
    /\ Len(queue) <= MaxQueue

(* -------------------------------------------------- end-to-end scenarios *)
\* the two event sequences of the end-to-end scenarios, times counted from
\* MinClock
Stamped(kind, path, t) ==
    [kind |-> kind, src_path |-> path, dest_path |-> "", occurred |-> MinClock + t]

Scenario1 == <<Stamped("created", "a.txt", 0), Stamped("modified", "a.txt", 1),
               Stamped("created", "b.tmp", 2)>>
Scenario2 == <<Stamped("created", "a.txt", 0), Stamped("modified", "a.txt", 6),
               Stamped("modified", "a.txt", 7)>>

ScenarioEnd == MinClock + 7 + sync_cooldown

InitScenario ==
    /\ source_path = expanduser(EnvGet("~/m", ""))
    /\ destination_path = "gd:"
    /\ pc = [main |-> "config", observer |-> "unstarted"]
    /\ exitStatus = NoExit
    /\ last_sync_time = NoHandler
    /\ clock = MinClock
    /\ queue = <<>>
    /\ curOccurred = NoTime
    /\ event_path = ""
    /\ running = {}
    /\ call = [t \in Threads |-> NoCall]
    /\ initial_syncs = 0
    /\ watchRegistered = FALSE
    /\ stopped = FALSE
    /\ lastTrigOccurred = NoTime
    /\ script \in {Scenario1, Scenario2}
    /\ lastTrigger = NoTime
    /\ triggerCount = 0
    /\ lastHandled = "none"
    /\ syncCalls = 0

\* no thread has a step of Python code to take: each one waits for a
\* subprocess, for an event or for the interrupt
AllBlocked ==
    /\ pc["main"] \in {"sync_running", "dedupe_running", "watching"}
    /\ \/ pc["observer"] \in {"unstarted", "sync_running", "dedupe_running"}
       \/ pc["observer"] = "idle" /\ queue = <<>>

\* time passes only while subprocesses run or everything waits, and not
\* beyond the moment the next scenario event occurs
ScenarioTick ==
    /\ clock < ScenarioEnd
    /\ AllBlocked
    /\ script # <<>> => clock < Head(script).occurred
    /\ clock' = clock + 1
    /\ UNCHANGED <<source_path, destination_path, pc, exitStatus,
                   last_sync_time, queue, curOccurred, event_path, running,
                   call, initial_syncs, watchRegistered, stopped,
                   lastTrigOccurred, script, lastTrigger, triggerCount,
                   lastHandled, syncCalls>>

\* the next scenario event occurs and is queued by the watch service
ScenarioEvent ==
    /\ watchRegistered
    /\ script # <<>>
    /\ Head(script).occurred = clock
    /\ queue' = Append(queue, Head(script))
    /\ script' = Tail(script)
    /\ UNCHANGED <<source_path, destination_path, pc, exitStatus,
                   last_sync_time, clock, curOccurred, event_path, running,
                   call, initial_syncs, watchRegistered, stopped,
                   lastTrigOccurred, lastTrigger, triggerCount, lastHandled,
                   syncCalls>>

NextScenario ==
    \/ ScenarioTick
    \/ ScenarioEvent
    \/ ConfigCheck
    \/ InitialSync
    \/ watch_directory
    \/ on_modified
    \/ on_created
    \/ trigger_sync
    \/ trigger_sync_return
    \/ \E t \in Threads : sync_to_gdrive(t)
    \/ \E t \in Threads : SyncExit(t)
    \/ \E t \in Threads : dedupe_gdrive(t)
    \/ \E t \in Threads : DedupeExit(t)

SpecScenario == InitScenario /\ [][NextScenario]_vars

(* ---------------------------------------------------------------- claims *)
\* the gate step: trigger_sync is entered in this state and left in the next
GateStep == pc["observer"] = "trigger_sync" /\ pc'["observer"] # "trigger_sync"
\* the gate step passes: sync_to_gdrive() is called
GateFires == GateStep /\ pc'["observer"] = "sync_to_gdrive"

\* C1: any two event-triggered syncs have trigger times (the clock readings
\* taken by the gate) at least sync_cooldown apart, whatever the events.
C1_TriggersCooldownApart ==
    [][GateFires =>
         /\ lastTrigger' = clock
         /\ lastTrigger # NoTime => lastTrigger' - lastTrigger >= sync_cooldown]_vars

\* C1 witness: a second event-triggered sync has been started
C1_Witness ==
    /\ triggerCount = 2
    /\ pc["observer"] = "sync_running"

\* C2: at most one external subprocess (sync or dedupe, of the initial sync or
\* of an event-triggered sync) is in progress at any time.
C2_OneSubprocessAtATime == Cardinality(running) <= 1

\* C2 witness: an event-triggered dedupe runs after an initial sync that ran
\* its own subprocess, with a further event waiting in the queue
C2_Witness ==
    /\ running = {<<"observer", "dedupe">>}
    /\ call["main"].result = "True"
    /\ queue # <<>>

\* C3: a path with an ignored suffix is never passed to the gate by any event,
\* whether it is the event's source or its destination.
C3_IgnoredPathNeverAtGate == event_path # "" => ~should_ignore(event_path)

\* C4: when the sync subprocess exits zero, dedupe is invoked exactly once,
\* after the sync subprocess has finished and before sync_to_gdrive returns,
\* and the call reports success whatever the dedupe exit status.
C4_DedupeOnceAfterSuccess ==
    \A t \in Threads :
        /\ call[t].dedupes <= 1
        /\ <<t, "dedupe">> \in running =>
              /\ <<t, "sync">> \notin running
              /\ call[t].syncExit = 0
              /\ call[t].result = "pending"
        /\ (pc[t] = "returned" /\ call[t].syncExit = 0) =>
              /\ call[t].dedupes = 1
              /\ call[t].dedupeExit # NoExit
              /\ <<t, "dedupe">> \notin running
              /\ call[t].result = "True"

\* C4 witness: an event-triggered sync exited zero, its dedupe exited
\* non-zero, and the call returned
C4_Witness ==
    /\ pc["observer"] = "returned"
    /\ call["observer"].syncExit = 0
    /\ call["observer"].dedupeExit = 1
    /\ call["observer"].result = "True"

\* C5: when the sync subprocess exits non-zero, dedupe is never invoked and
\* the call reports failure.
C5_NoDedupeAfterFailure ==
    \A t \in Threads :
        call[t].syncExit \notin {NoExit, 0} =>
            /\ call[t].dedupes = 0
            /\ <<t, "dedupe">> \notin running
            /\ pc[t] = "returned"
            /\ call[t].result = "False"

\* C5 witness: an event-triggered sync exited non-zero and the call returned
C5_Witness ==
    /\ pc["observer"] = "returned"
    /\ call["observer"].syncExit = 1
    /\ call["observer"].exists = "yes"

\* C6: when source_path does not exist at the call, sync_to_gdrive reports
\* failure and spawns neither the sync nor the dedupe subprocess.
C6_SourceMissingSpawnsNothing ==
    \A t \in Threads :
        call[t].exists = "no" =>
            /\ pc[t] = "returned"
            /\ call[t].result = "False"
            /\ call[t].syncs = 0
            /\ call[t].dedupes = 0
            /\ call[t].syncExit = NoExit
            /\ \A k \in {"sync", "dedupe"} : <<t, k>> \notin running

\* C6 witness: an event-triggered call found the source missing, after an
\* initial sync that had failed too
C6_Witness ==
    /\ pc["observer"] = "returned"
    /\ call["observer"].exists = "no"
    /\ call["main"].result = "False"

\* C7: with the source path or the destination empty or absent, the process
\* exits with status 1 and nothing else happens: no initial sync, no watch,
\* no subprocess.
C7_MissingConfigIsFatal ==
    (source_path = "" \/ destination_path \in {None, ""}) =>
        /\ pc["main"] \in {"config", "exited"}
        /\ pc["main"] = "exited" => exitStatus = 1
        /\ pc["main"] = "config" => exitStatus = NoExit
        /\ pc["observer"] = "unstarted"
        /\ ~watchRegistered
        /\ last_sync_time = NoHandler
        /\ initial_syncs = 0
        /\ running = {}
        /\ call = [t \in Threads |-> NoCall]
        /\ queue = <<>>

\* C7 witness: the source is configured, the destination is absent, and the
\* process has exited with status 1
C7_Witness ==
    /\ source_path # ""
    /\ destination_path = None
    /\ pc["main"] = "exited"
    /\ exitStatus = 1

\* C8: exactly one initial sync is made, without the gate (no handler exists
\* yet); it has returned before the watch is registered and before any event
\* is handled, and the watch is registered whatever its outcome.
C8_InitialSyncBeforeWatch ==
    /\ initial_syncs <= 1
    /\ watchRegistered =>
          /\ initial_syncs = 1
          /\ call["main"].result \in {"True", "False"}
          /\ pc["main"] \in {"watching", "join", "exited"}
          /\ \A k \in {"sync", "dedupe"} : <<"main", k>> \notin running
    /\ ~watchRegistered =>
          /\ last_sync_time = NoHandler
          /\ pc["observer"] = "unstarted"
          /\ queue = <<>>
          /\ triggerCount = 0
    /\ pc["main"] = "returned" => ENABLED watch_directory

\* C8 witness: the watch is registered and an event is being handled after an
\* initial sync that failed
C8_Witness ==
    /\ watchRegistered
    /\ call["main"].result = "False"
    /\ pc["observer"] = "trigger_sync"

\* C9: after a trigger at t0, the gate evaluated at t suppresses (state
\* untouched, no sync) when t - t0 < sync_cooldown, and otherwise sets
\* last_sync_time to t and calls sync_to_gdrive; t = t0 + sync_cooldown passes.
C9_GateSemantics ==
    [][(GateStep /\ lastTrigger # NoTime) =>
         IF clock - lastTrigger < sync_cooldown
         THEN /\ last_sync_time' = last_sync_time
              /\ pc'["observer"] = "idle"
              /\ running' = running
         ELSE /\ last_sync_time' = clock
              /\ pc'["observer"] = "sync_to_gdrive"]_vars

\* C9 witness: the second trigger happened exactly sync_cooldown after the
\* first one (the first cannot be earlier than MinClock)
C9_Witness ==
    /\ triggerCount = 2
    /\ lastTrigger = MinClock + sync_cooldown
    /\ pc["observer"] = "sync_to_gdrive"

\* C10: whether a non-ignored event triggers depends only on when it occurred
\* relative to when the last triggering event occurred, however long each
\* sync takes: it triggers iff no event triggered before or it occurred at
\* least sync_cooldown after the last triggering one.
C10_OccurrenceTimeDecides ==
    [][GateStep =>
         (GateFires <=>
             \/ lastTrigOccurred = NoTime
             \/ curOccurred - lastTrigOccurred >= sync_cooldown)]_vars

\* C11: a sync that ends in an error (source missing, sync failed, dedupe
\* failed) ends neither the dispatch thread nor the process: the callback
\* returns to the dispatch loop, the thread ends only after observer.stop(),
\* the process exits only for a missing configuration or after the interrupt,
\* and an event evaluated after the cooldown still triggers.
C11_ErrorsAreAbsorbed ==
    [][/\ (pc["observer"] = "returned" /\ pc'["observer"] # "returned") =>
              /\ pc'["observer"] = "idle"
              /\ exitStatus' = exitStatus
       /\ pc'["observer"] = "dead" => stopped'
       /\ exitStatus' = 0 => stopped'
       /\ exitStatus' = 1 => (source_path = "" \/ destination_path \in {None, ""})
       /\ (GateStep /\ lastHandled = "error"
             /\ clock - lastTrigger >= sync_cooldown) => GateFires]_vars

\* C11 witness: after a failed initial sync and an event-triggered sync that
\* ended in an error, a later event has passed the gate
C11_Witness ==
    /\ lastHandled = "error"
    /\ triggerCount = 2
    /\ pc["observer"] = "sync_to_gdrive"
    /\ call["main"].result = "False"
    /\ exitStatus = NoExit

\* C12: last_sync_time never decreases, also when the wall clock steps back,
\* and it is written only by the gate when it passes (after FileHandler
\* __init__ has set it once).
C12_LastSyncTimeMonotone ==
    [][/\ last_sync_time' >= last_sync_time
       /\ last_sync_time' # last_sync_time =>
             \/ GateFires
             \/ last_sync_time = NoHandler /\ ~watchRegistered]_vars

\* C12 witness: two triggers have happened, the clock has been set back
\* below the last one, and the gate is evaluating an event
C12_Witness ==
    /\ triggerCount = 2
    /\ clock < last_sync_time
    /\ pc["observer"] = "trigger_sync"

\* C13: once the interrupt has arrived in the watching phase, the process
\* eventually exits with status 0, whether or not a sync is in flight.
C13_InterruptLeadsToExit == stopped ~> (exitStatus = 0)

\* a callback takes an event from the queue and returns at once: the filter
\* has dropped the event
IgnoredStep ==
    /\ pc["observer"] = "idle"
    /\ pc'["observer"] = "idle"
    /\ queue # <<>>
    /\ queue' = Tail(queue)
\* the gate is evaluated and does not pass
SuppressedStep == GateStep /\ ~GateFires

\* C14: handling an event that the filter drops, or that the gate
\* suppresses, leaves last_sync_time unchanged and starts no subprocess and
\* no sync_to_gdrive call.
C14_DroppedEventsChangeNothing ==
    [][(IgnoredStep \/ SuppressedStep) =>
          /\ last_sync_time' = last_sync_time
          /\ running' = running
          /\ call' = call
          /\ syncCalls' = syncCalls
          /\ pc'["observer"] = "idle"]_vars

\* C14 witness: the last callback ended by suppression inside the cooldown
\* of an earlier trigger, nothing runs and last_sync_time is that trigger
C14_Witness ==
    /\ lastHandled = "suppressed"
    /\ pc["observer"] = "idle"
    /\ running = {}
    /\ last_sync_time = lastTrigger
    /\ clock > lastTrigger

\* the dispatch thread is inside an event-triggered sync_to_gdrive call
InSyncCall(p) ==
    p \in {"sync_to_gdrive", "sync_running", "sync_ok", "dedupe_running",
           "returned"}

\* C15: last_sync_time is set when the gate passes, before the sync runs and
\* whatever its outcome; a failed sync is not retried and keeps the cooldown:
\* the next sync starts only from the gate, at a reading at least
\* sync_cooldown after that trigger.
C15_FailureConsumesCooldown ==
    [][/\ GateFires => last_sync_time' = clock
       /\ InSyncCall(pc'["observer"]) => last_sync_time' = lastTrigger'
       /\ (pc["observer"] = "returned" /\ pc'["observer"] # "returned"
             /\ call["observer"].result = "False") =>
              /\ pc'["observer"] = "idle"
              /\ last_sync_time' = last_sync_time
              /\ syncCalls' = syncCalls
       /\ (pc'["observer"] = "sync_to_gdrive"
             /\ pc["observer"] # "sync_to_gdrive") =>
              /\ pc["observer"] = "trigger_sync"
              /\ lastTrigger # NoTime =>
                    clock - lastTrigger >= sync_cooldown]_vars

\* C15 witness: the last sync ended in an error, and an event is at the gate
\* inside the cooldown that the failed trigger started
C15_Witness ==
    /\ lastHandled = "error"
    /\ pc["observer"] = "trigger_sync"
    /\ clock >= lastTrigger
    /\ clock - lastTrigger < sync_cooldown
    /\ last_sync_time = lastTrigger

\* sync_to_gdrive calls made so far: those executed and those just entered
Invocations ==
    syncCalls + Cardinality({t \in Threads : pc[t] = "sync_to_gdrive"})

\* C16: a suppressed event is discarded, not deferred: while watching, the
\* number of sync_to_gdrive calls is one (startup) plus the number of events
\* that passed the gate, and the dispatch thread leaves its idle state only
\* for a non-ignored event that goes to the gate, so without such an event
\* no sync starts after a suppressed one.
C16_SuppressedIsDiscarded ==
    [][/\ (watchRegistered' /\ triggerCount' < CountCap) =>
              Invocations' = 1 + triggerCount'
       /\ (pc["observer"] = "idle" /\ pc'["observer"] \notin {"idle", "dead"}) =>
              /\ queue # <<>>
              /\ ~should_ignore(Head(queue).src_path)
              /\ pc'["observer"] = "trigger_sync"
       /\ SuppressedStep => (pc'["observer"] = "idle" /\ queue' = queue)]_vars

\* C16 witness: the last callback was suppressed, the cooldown has since
\* elapsed with no event waiting, and still only the startup sync and the
\* one triggered sync have been called
C16_Witness ==
    /\ lastHandled = "suppressed"
    /\ pc["observer"] = "idle"
    /\ queue = <<>>
    /\ clock - lastTrigger >= sync_cooldown
    /\ triggerCount = 1
    /\ syncCalls = 2

\* C17: the initial sync leaves the gate alone: no handler exists while it
\* runs, last_sync_time is 0 from the creation of the handler until the first
\* trigger, and the first event that reaches the gate passes it, however
\* little time has gone by since the initial sync.
C17_FirstEventAlwaysTriggers ==
    [][/\ ~watchRegistered' => last_sync_time' = NoHandler
       /\ (watchRegistered' /\ triggerCount' = 0) => last_sync_time' = 0
       /\ (GateStep /\ triggerCount = 0) => GateFires]_vars

\* C17 witness: after an initial sync that ran its subprocesses, the first
\* event has passed the gate at the very reading the process started with
C17_Witness ==
    /\ call["main"].result = "True"
    /\ triggerCount = 1
    /\ lastTrigger = MinClock
    /\ clock = MinClock
    /\ pc["observer"] = "sync_to_gdrive"

\* C18: the final banner and the exit with status 0 come only after the
\* dispatch thread has been joined: a sync in flight at the interrupt (its
\* sync and dedupe subprocesses, and the callback around them) has returned
\* before the process exits.
C18_ExitAfterJoin ==
    /\ exitStatus = 0 =>
          /\ stopped
          /\ pc["observer"] = "dead"
          /\ running = {}
          /\ call["observer"] = NoCall
    /\ (pc["main"] = "join" /\ InSyncCall(pc["observer"])) => exitStatus = NoExit

\* C18 witness: the interrupt has arrived, the main thread waits in join,
\* and the dedupe subprocess of an event-triggered sync is still running
C18_Witness ==
    /\ stopped
    /\ pc["main"] = "join"
    /\ pc["observer"] = "dedupe_running"
    /\ running = {<<"observer", "dedupe">>}
    /\ exitStatus = NoExit

\* the dispatch thread takes a rename event off the queue and stays alive
MovedStep ==
    /\ pc["observer"] = "idle"
    /\ queue # <<>>
    /\ Head(queue).kind = "moved"
    /\ queue' = Tail(queue)
    /\ pc'["observer"] # "dead"

\* C19: a rename event is dropped exactly when its source path has an ignored
\* suffix, whatever its destination path is; when it is not dropped, the
\* destination path is the one handed to the gate.  A rename from an ignored
\* name to a non-ignored name therefore never reaches the gate.
C19_RenameFilteredOnSource ==
    [][MovedStep =>
          IF should_ignore(Head(queue).src_path)
          THEN /\ pc' = pc
               /\ event_path' = event_path
               /\ lastHandled' = "ignored"
               /\ last_sync_time' = last_sync_time
               /\ triggerCount' = triggerCount
               /\ running' = running
          ELSE /\ pc'["observer"] = "trigger_sync"
               /\ event_path' = Head(queue).dest_path]_vars

\* C19 witness: a rename of a.txt to b.tmp was not dropped and its
\* destination is the path standing at the gate
C19_Witness ==
    /\ pc["observer"] = "trigger_sync"
    /\ event_path = "b.tmp"
    /\ should_ignore(event_path)
    /\ ~should_ignore("a.txt")

====
